---------------------------- MODULE Spec2Model ----------------------------
(***************************************************************************)
(* A model of pandas/stats/moments.py: the rolling and exponentially       *)
(* weighted moments, the paired dispatcher and the pairwise builder.       *)
(*                                                                         *)
(* Numbers.  A float is a pair <<n, d>>: d > 0 is the rational n/d in      *)
(* lowest terms, <<0,0>> is NaN, <<1,0>> is +inf and <<-1,0>> is -inf.     *)
(* Arithmetic is exact: the rounding of IEEE doubles is not modelled.      *)
(* None is the empty tuple.                                                *)
(***************************************************************************)
EXTENDS Integers, Sequences, FiniteSets, TLC

VARIABLES ewm, roll, flex, pw

vars == <<ewm, roll, flex, pw>>

None == <<>>
NaN == <<0, 0>>
Inf == <<1, 0>>
NegInf == <<-1, 0>>

Abs(n) == IF n < 0 THEN -n ELSE n

Sign(n) == IF n < 0 THEN -1 ELSE IF n = 0 THEN 0 ELSE 1

RECURSIVE GCD(_, _)
GCD(a, b) == IF b = 0 THEN a ELSE GCD(b, a % b)

\* n/d with d # 0, in lowest terms with a positive denominator.
Norm(n, d) ==
    LET Reduce(g, s) == <<(s * n) \div g, (s * d) \div g>>
    IN  Reduce(GCD(Abs(n), Abs(d)), IF d < 0 THEN -1 ELSE 1)

R(n) == <<n, 1>>

IsNaN(v) == v = NaN

IsInf(v) == v[2] = 0 /\ v[1] # 0

IsFinite(v) == v[2] # 0

IsNeg(v) == v[1] < 0

Add(a, b) ==
    IF IsNaN(a) \/ IsNaN(b) THEN NaN
    ELSE IF IsInf(a) /\ IsInf(b) THEN (IF a = b THEN a ELSE NaN)
    ELSE IF IsInf(a) THEN a
    ELSE IF IsInf(b) THEN b
    ELSE Norm(a[1] * b[2] + b[1] * a[2], a[2] * b[2])

Mul(a, b) ==
    IF IsNaN(a) \/ IsNaN(b) THEN NaN
    ELSE IF IsInf(a) \/ IsInf(b)
         THEN (IF a[1] = 0 \/ b[1] = 0 THEN NaN ELSE <<Sign(a[1]) * Sign(b[1]), 0>>)
    ELSE Norm(a[1] * b[1], a[2] * b[2])

Neg(a) == <<-a[1], a[2]>>

Sub(a, b) == Add(a, Neg(b))

\* numpy's elementwise division: x/0 is +-inf, 0/0 is NaN, no exception.
Div(a, b) ==
    IF IsNaN(a) \/ IsNaN(b) THEN NaN
    ELSE IF IsInf(b) THEN (IF IsInf(a) THEN NaN ELSE R(0))
    ELSE IF b[1] = 0 THEN (IF a[1] = 0 THEN NaN ELSE <<Sign(a[1]), 0>>)
    ELSE IF IsInf(a) THEN <<Sign(a[1]) * Sign(b[1]), 0>>
    ELSE Norm(a[1] * b[2], a[2] * b[1])

\* np.sqrt as a term: rad is the radicand, NaN for a NaN or negative argument.
Sqrt(v) == [rad |-> IF IsNaN(v) \/ IsNeg(v) THEN NaN ELSE v]

\* Elementwise array operations.
VAdd(x, y) == [i \in 1..Len(x) |-> Add(x[i], y[i])]

VSub(x, y) == [i \in 1..Len(x) |-> Sub(x[i], y[i])]

VMul(x, y) == [i \in 1..Len(x) |-> Mul(x[i], y[i])]

VDiv(x, y) == [i \in 1..Len(x) |-> Div(x[i], y[i])]

VScale(k, x) == [i \in 1..Len(x) |-> Mul(k, x[i])]

VSqrt(x) == [i \in 1..Len(x) |-> Sqrt(x[i])]

Min(a, b) == IF a < b THEN a ELSE b

Max(a, b) == IF a > b THEN a ELSE b

(***************************************************************************)
(* Bounds of the model.                                                    *)
(***************************************************************************)
MaxLen == 2

MaxMinPeriods == 2

\* The values an input array holds.
Vals == {NaN, R(1), R(2)}

\* Arrays of length 1..n over S.
Arrays(S, n) == UNION {[1..k -> S] : k \in 1..n}

(***************************************************************************)
(* Array kinds.  Series subclasses numpy's ndarray in this code base (the  *)
(* doc "Series / Series -> Series" relies on it), DataFrame does not.      *)
(***************************************************************************)
Kinds == {"ndarray", "Series", "DataFrame", "other"}

IsNdarray(k) == k \in {"ndarray", "Series"}

\* isinstance(b, type(a)) for values of kinds a and b
IsInstanceOfType(b, a) == b = a \/ (a = "ndarray" /\ b = "Series")

(***************************************************************************)
(* Containers.  An input or output is [kind, index, columns, data]: data   *)
(* is the sequence of its columns (one column for an ndarray or a Series), *)
(* index the row labels of a Series or DataFrame (<<>> for an ndarray) and *)
(* columns the column names of a DataFrame.                                *)
(***************************************************************************)
NdArray(col) == [kind |-> "ndarray", index |-> <<>>, columns |-> <<>>, data |-> <<col>>]

MkSeries(col, idx) == [kind |-> "Series", index |-> idx, columns |-> <<>>, data |-> <<col>>]

MkDataFrame(d, idx, cols) == [kind |-> "DataFrame", index |-> idx, columns |-> cols, data |-> d]

NoArg == [kind |-> "none", index |-> <<>>, columns |-> <<>>, data |-> <<>>]

\* An outcome of a call: err is "" when the call returned val.
Ok(v) == [err |-> "", val |-> v]

Fail(e) == [err |-> e, val |-> NoArg]

\* len(arg): the number of rows
NRows(arg) == IF arg.data = <<>> THEN Len(arg.index) ELSE Len(arg.data[1])

Range(s) == {s[i] : i \in 1..Len(s)}

\* The elements of a set of integers in increasing order.
SortedSeq(S) ==
    [i \in 1..Cardinality(S) |-> CHOOSE x \in S : Cardinality({y \in S : y < x}) = i - 1]

\* reindex: the column's value at each label of newIdx, NaN where the label is new
Reindex(col, oldIdx, newIdx) ==
    [i \in 1..Len(newIdx) |->
        IF \E j \in 1..Len(oldIdx) : oldIdx[j] = newIdx[i]
        THEN col[CHOOSE j \in 1..Len(oldIdx) : oldIdx[j] = newIdx[i]]
        ELSE NaN]

\* DataFrame/Series.asfreq(rule): conform to the regular calendar of step
\* `rule` from the first to the last label.
asfreq(arg, rule) ==
    IF arg.index = <<>> THEN arg
    ELSE LET lo == arg.index[1]
             hi == arg.index[Len(arg.index)]
             idx == SortedSeq({d \in lo..hi : (d - lo) % rule = 0})
         IN  [arg EXCEPT !.index = idx,
                         !.data = [c \in 1..Len(arg.data) |->
                                      Reindex(arg.data[c], arg.index, idx)]]

_conv_timerule(arg, time_rule) ==
    IF time_rule # None /\ arg.kind \in {"DataFrame", "Series"}
    THEN asfreq(arg, time_rule[1])
    ELSE arg

\* values[np.isinf(values)] = np.NaN
KillInf(col) == [i \in 1..Len(col) |-> IF IsInf(col[i]) THEN NaN ELSE col[i]]

\* The values of _process_data_structure's result.
_process_data_structure(arg, kill_inf) ==
    IF kill_inf THEN [c \in 1..Len(arg.data) |-> KillInf(arg.data[c])]
    ELSE arg.data

\* A variant whose Series branch returns the raw values.
return_hook_raw_series(arg, v) ==
    IF arg.kind = "DataFrame" THEN MkDataFrame(v, arg.index, arg.columns)
    ELSE [kind |-> "ndarray", index |-> <<>>, columns |-> <<>>, data |-> v]

\* The return_hook of _process_data_structure's result, applied to v.
return_hook(arg, v) ==
    IF arg.kind = "DataFrame" THEN MkDataFrame(v, arg.index, arg.columns)
    ELSE IF arg.kind = "Series" THEN [kind |-> "Series", index |-> arg.index,
                                       columns |-> <<>>, data |-> v]
    ELSE [kind |-> "ndarray", index |-> <<>>, columns |-> <<>>, data |-> v]

\* Elementwise arithmetic of two containers of one shape and index.
CMul(a, b) ==
    [a EXCEPT !.data = [c \in 1..Len(a.data) |-> VMul(a.data[c], b.data[c])]]

CSub(a, b) ==
    [a EXCEPT !.data = [c \in 1..Len(a.data) |-> VSub(a.data[c], b.data[c])]]

CScale(k, a) ==
    [a EXCEPT !.data = [c \in 1..Len(a.data) |-> VScale(k, a.data[c])]]

(***************************************************************************)
(* Exponential moving moments.                                             *)
(***************************************************************************)
\* A variant that lets span win silently when both are given.
_get_center_of_mass_span_wins(com, span) ==
    IF span # None THEN [err |-> "", val |-> Div(Sub(span, R(1)), R(2))]
    ELSE IF com = None THEN [err |-> "Must pass either com or span", val |-> NoArg]
    ELSE [err |-> "", val |-> com]

_get_center_of_mass(com, span) ==
    IF span # None
    THEN IF com # None
         THEN Fail("com and span are mutually exclusive")
         ELSE Ok(Div(Sub(span, R(1)), R(2)))
    ELSE IF com = None
         THEN Fail("Must pass either com or span")
         ELSE Ok(com)

\* _tseries.ewma: y is missing before the first valid input, the input there,
\* then (1-alpha) y[t-1] + alpha x[t]; a missing input holds the last output.
RECURSIVE TseriesEwmaAt(_, _, _)
TseriesEwmaAt(v, com, i) ==
    IF i = 0 THEN NaN
    ELSE LET Update(prev, alpha) ==
                 IF IsNaN(v[i]) THEN prev
                 ELSE IF IsNaN(prev) THEN v[i]
                 ELSE Add(Mul(Sub(R(1), alpha), prev), Mul(alpha, v[i]))
         IN  Update(TseriesEwmaAt(v, com, i - 1), Div(R(1), Add(R(1), com)))

TseriesEwma(v, com) == [i \in 1..Len(v) |-> TseriesEwmaAt(v, com, i)]

\* notnull(arr).argmax(): the 0-based position of the first valid value, 0 if none
_first_valid_index(arr) ==
    IF \E i \in 1..Len(arr) : ~IsNaN(arr[i])
    THEN (CHOOSE i \in 1..Len(arr) :
             ~IsNaN(arr[i]) /\ \A j \in 1..(i - 1) : IsNaN(arr[j])) - 1
    ELSE 0

\* result[first_index : first_index + min_periods] = NaN
_ewma(v, com, min_periods) ==
    LET Blank(result, first_index) ==
            [i \in 1..Len(v) |->
                IF first_index <= i - 1 /\ i - 1 < first_index + min_periods
                THEN NaN ELSE result[i]]
    IN  Blank(TseriesEwma(v, com), _first_valid_index(v))

ewma(arg, com, span, min_periods, time_rule) ==
    LET Output(c, a, values) ==
            IF c.err # "" THEN c
            ELSE Ok(return_hook(a, [k \in 1..Len(values) |->
                                       _ewma(values[k], c.val, min_periods)]))
        Apply(c, a) == Output(c, a, _process_data_structure(a, TRUE))
    IN  Apply(_get_center_of_mass(com, span), _conv_timerule(arg, time_rule))

\* (1.0 + 2.0 * com) / (2.0 * com) on Python scalars
BiasFactor(com) ==
    IF com = None THEN Fail("TypeError")
    ELSE IF com[1] = 0 THEN Fail("ZeroDivisionError")
    ELSE Ok(Div(Add(R(1), Mul(R(2), com)), Mul(R(2), com)))

ewmvar(arg, com, span, min_periods, bias, time_rule) ==
    LET Unbias(result, k) ==
            IF bias THEN Ok(result)
            ELSE IF k.err # "" THEN k
            ELSE Ok(CScale(k.val, result))
        Moments(moment2nd, moment1st, k) ==
            Unbias(CSub(moment2nd, CMul(moment1st, moment1st)), k)
        Var(c, a) ==
            IF c.err # "" THEN c
            ELSE Moments(ewma(CMul(a, a), c.val, None, min_periods, None).val,
                         ewma(a, c.val, None, min_periods, None).val,
                         BiasFactor(c.val))
    IN  Var(_get_center_of_mass(com, span), _conv_timerule(arg, time_rule))

CSqrt(a) == [a EXCEPT !.data = [c \in 1..Len(a.data) |-> VSqrt(a.data[c])]]

ewmstd(arg, com, span, min_periods, bias, time_rule) ==
    LET Root(result) == IF result.err # "" THEN result ELSE Ok(CSqrt(result.val))
    IN  Root(ewmvar(arg, com, span, min_periods, bias, time_rule))

\* The labels of either index, in increasing order (Index.union).
UnionIndex(i1, i2) == SortedSeq(Range(i1) \cup Range(i2))

\* Series.reindex / DataFrame.reindex on the rows
ReindexRows(a, idx) ==
    [a EXCEPT !.index = idx,
              !.data = [c \in 1..Len(a.data) |-> Reindex(a.data[c], a.index, idx)]]

\* a + 0 * b: two Series are first aligned on the union of their indexes, any
\* other pair is added by position.
MaskBy(a, b) ==
    LET Masked(a1, b1) ==
            [a1 EXCEPT !.data = [c \in 1..Len(a1.data) |->
                                    VAdd(a1.data[c], VScale(R(0), b1.data[c]))]]
        Aligned(u) ==
            Masked(IF a.kind = "Series" /\ b.kind = "Series" THEN ReindexRows(a, u) ELSE a,
                   IF a.kind = "Series" /\ b.kind = "Series" THEN ReindexRows(b, u) ELSE b)
    IN  Aligned(UnionIndex(a.index, b.index))

\* arg1 + 0 * arg2 keeps the labels of a Series operand
BinKind(a, b) ==
    IF a.kind = "ndarray" /\ b.kind = "Series"
    THEN [a EXCEPT !.kind = "Series", !.index = b.index]
    ELSE a

_prep_binary(arg1, arg2) ==
    IF ~IsInstanceOfType(arg2.kind, arg1.kind)
    THEN [err |-> "Input arrays must be of the same type!", X |-> NoArg, Y |-> NoArg]
    ELSE [err |-> "", X |-> MaskBy(BinKind(arg1, arg2), arg2),
                      Y |-> MaskBy(BinKind(arg2, arg1), arg1)]

ewmcov(arg1, arg2, com, span, min_periods, bias, time_rule) ==
    LET Unbias(result, k) ==
            IF bias THEN Ok(result)
            ELSE IF k.err # "" THEN k
            ELSE Ok(CScale(k.val, result))
        Cov(mXY, mX, mY) ==
            IF mXY.err # "" THEN mXY
            ELSE Unbias(CSub(mXY.val, CMul(mX.val, mY.val)), BiasFactor(com))
        Means(X, Y) ==
            Cov(ewma(CMul(X, Y), com, span, min_periods, None),
                ewma(X, com, span, min_periods, None),
                ewma(Y, com, span, min_periods, None))
        Prep(p) ==
            IF p.err # "" THEN Fail(p.err)
            ELSE Means(_conv_timerule(p.X, time_rule), _conv_timerule(p.Y, time_rule))
    IN  Prep(_prep_binary(arg1, arg2))

\* num / np.sqrt(rad), elementwise, as a term
CorrTerm(num, rad) ==
    [num EXCEPT !.data = [c \in 1..Len(num.data) |->
        [i \in 1..Len(num.data[c]) |->
            [num |-> num.data[c][i], den |-> Sqrt(rad.data[c][i])]]]]

ewmcorr(arg1, arg2, com, span, min_periods, time_rule) ==
    LET Corr(mXY, mX, mY, vX, vY) ==
            IF mXY.err # "" THEN mXY
            ELSE Ok(CorrTerm(CSub(mXY.val, CMul(mX.val, mY.val)),
                             CMul(vX.val, vY.val)))
        Moments(X, Y) ==
            Corr(ewma(CMul(X, Y), com, span, min_periods, None),
                 ewma(X, com, span, min_periods, None),
                 ewma(Y, com, span, min_periods, None),
                 ewmvar(X, com, span, min_periods, TRUE, None),
                 ewmvar(Y, com, span, min_periods, TRUE, None))
        Prep(p) ==
            IF p.err # "" THEN Fail(p.err)
            ELSE Moments(_conv_timerule(p.X, time_rule), _conv_timerule(p.Y, time_rule))
    IN  Prep(_prep_binary(arg1, arg2))


(***************************************************************************)
(* Rolling moments.  The compiled reducers of _tseries take one column, the *)
(* window and the minimum number of observations: the output at i is the   *)
(* statistic of the valid values of the trailing window ending at i, and   *)
(* missing when fewer than minp of them are valid.                         *)
(***************************************************************************)
Some(n) == <<n>>

RECURSIVE SumSeq(_)
SumSeq(s) == IF s = <<>> THEN R(0) ELSE Add(s[1], SumSeq(Tail(s)))

\* The valid values of the trailing window of size W ending at position i.
ValidWindow(col, i, W) ==
    SelectSeq(SubSeq(col, Max(1, i - W + 1), i), LAMBDA v : ~IsNaN(v))

Less(a, b) == a[1] * b[2] < b[1] * a[2]

roll_sum(col, W, minp) ==
    [i \in 1..Len(col) |->
        LET v == ValidWindow(col, i, W)
        IN  IF Len(v) < minp THEN NaN ELSE SumSeq(v)]

roll_mean(col, W, minp) ==
    [i \in 1..Len(col) |->
        LET v == ValidWindow(col, i, W)
        IN  IF Len(v) < minp THEN NaN ELSE Div(SumSeq(v), R(Len(v)))]

roll_max(col, W, minp) ==
    [i \in 1..Len(col) |->
        LET v == ValidWindow(col, i, W)
        IN  IF Len(v) < minp \/ v = <<>> THEN NaN
            ELSE CHOOSE x \in Range(v) : \A y \in Range(v) : ~Less(x, y)]

roll_min(col, W, minp) ==
    [i \in 1..Len(col) |->
        LET v == ValidWindow(col, i, W)
        IN  IF Len(v) < minp \/ v = <<>> THEN NaN
            ELSE CHOOSE x \in Range(v) : \A y \in Range(v) : ~Less(y, x)]

\* (sum x^2 - (sum x)^2 / c) / (c - 1), missing below two valid values
roll_var(col, W, minp) ==
    LET Var(n, c, sx, sxx) ==
            IF n < minp \/ n < 2 THEN NaN
            ELSE Div(Sub(sxx, Div(Mul(sx, sx), c)), Sub(c, R(1)))
        Of(v) == Var(Len(v), R(Len(v)), SumSeq(v), SumSeq(VMul(v, v)))
    IN  [i \in 1..Len(col) |-> Of(ValidWindow(col, i, W))]

\* The bias-corrected sample skewness of obs, as a term; missing below three values.
roll_skew(col, W, minp) ==
    [i \in 1..Len(col) |->
        LET v == ValidWindow(col, i, W)
        IN  IF Len(v) < minp \/ Len(v) < 3 THEN [stat |-> "skew", obs |-> <<NaN>>]
            ELSE [stat |-> "skew", obs |-> v]]

\* The bias-corrected excess kurtosis of obs, as a term; missing below four values.
roll_kurt(col, W, minp) ==
    [i \in 1..Len(col) |->
        LET v == ValidWindow(col, i, W)
        IN  IF Len(v) < minp \/ Len(v) < 4 THEN [stat |-> "kurt", obs |-> <<NaN>>]
            ELSE [stat |-> "kurt", obs |-> v]]

_ts_std(col, W, minp) == VSqrt(roll_var(col, W, minp))

_use_window(minp, window) == IF minp = None THEN window ELSE minp[1]

\* _require_min_periods(p)(minp, window)
_require_min_periods(p, minp, window) ==
    IF minp = None THEN window ELSE Max(p, minp[1])

RollingOps ==
    {"rolling_max", "rolling_min", "rolling_sum", "rolling_mean",
     "rolling_std", "rolling_var", "rolling_skew", "rolling_kurt"}

\* The check_minp each rolling function is built with.
check_minp(op, minp, window) ==
    CASE op \in {"rolling_std", "rolling_var"} -> _require_min_periods(2, minp, window)
      [] op = "rolling_skew" -> _require_min_periods(3, minp, window)
      [] op = "rolling_kurt" -> _require_min_periods(4, minp, window)
      [] OTHER -> _use_window(minp, window)

\* The compiled function each rolling function is built with.
func(op, col, window, minp) ==
    CASE op = "rolling_max" -> roll_max(col, window, minp)
      [] op = "rolling_min" -> roll_min(col, window, minp)
      [] op = "rolling_sum" -> roll_sum(col, window, minp)
      [] op = "rolling_mean" -> roll_mean(col, window, minp)
      [] op = "rolling_std" -> _ts_std(col, window, minp)
      [] op = "rolling_var" -> roll_var(col, window, minp)
      [] op = "rolling_skew" -> roll_skew(col, window, minp)
      [] op = "rolling_kurt" -> roll_kurt(col, window, minp)

\* call_cython of _rolling_func's f: what it hands the reducer, and the output.
call_cython(op, col, window, minp) ==
    LET m == check_minp(op, minp, window)
    IN  [window |-> window, minp |-> m, out |-> func(op, col, window, m)]

\* A variant that validates 1 <= min_periods <= window before computing.
_rolling_moment_validating(op, arg, window, minp, time_rule) ==
    LET Results(a, calc) ==
            IF minp # None /\ (minp[1] < 1 \/ minp[1] > window)
            THEN [err |-> "ConfigurationError", val |-> NoArg, calls |-> <<>>]
            ELSE [err |-> "", val |-> return_hook(a, [k \in 1..Len(calc) |-> calc[k].out]),
                  calls |-> [k \in 1..Len(calc) |->
                                [window |-> calc[k].window, minp |-> calc[k].minp]]]
        Along(a, values) ==
            Results(a, [k \in 1..Len(values) |->
                           call_cython(op, values[k], window, minp)])
        Apply(a) == Along(a, _process_data_structure(a, TRUE))
    IN  Apply(_conv_timerule(arg, time_rule))

\* _rolling_moment with func = call_cython of `op`: err, the output and, per
\* column, the window and minp the reducer was invoked with.
_rolling_moment(op, arg, window, minp, time_rule) ==
    LET Results(a, calc) ==
            [err |-> "", val |-> return_hook(a, [k \in 1..Len(calc) |-> calc[k].out]),
             calls |-> [k \in 1..Len(calc) |->
                           [window |-> calc[k].window, minp |-> calc[k].minp]]]
        Along(a, values) ==
            Results(a, [k \in 1..Len(values) |->
                           call_cython(op, values[k], window, minp)])
        Apply(a) == Along(a, _process_data_structure(a, TRUE))
    IN  Apply(_conv_timerule(arg, time_rule))

\* A variant that counts every non-NaN value, infinities included.
NotNaNAsFloat(col) == [i \in 1..Len(col) |-> IF IsNaN(col[i]) THEN R(0) ELSE R(1)]

\* np.isfinite(values).astype(float)
IsFiniteAsFloat(col) == [i \in 1..Len(col) |-> IF IsFinite(col[i]) THEN R(1) ELSE R(0)]

\* result[np.isnan(result)] = 0
NanToZero(col) == [i \in 1..Len(col) |-> IF IsNaN(col[i]) THEN R(0) ELSE col[i]]

rolling_count(arg, window, time_rule) ==
    LET Counted(a, summed) ==
            [err |-> "",
             val |-> return_hook(a, [k \in 1..Len(summed.val.data) |->
                                        NanToZero(summed.val.data[k])]),
             calls |-> summed.calls]
        Convert(a, values) ==
            Counted(a, _rolling_moment("rolling_sum",
                           [kind |-> "ndarray", index |-> <<>>, columns |-> <<>>,
                            data |-> [k \in 1..Len(values) |-> IsFiniteAsFloat(values[k])]],
                           Min(window, NRows(a)), Some(1), time_rule))
        Apply(a) == Convert(a, _process_data_structure(a, FALSE))
    IN  Apply(_conv_timerule(arg, time_rule))

(***************************************************************************)
(* The EWM calls as a state machine: a caller makes one call, the call     *)
(* leaves its outcome in ewm.res, and the caller returns to idle.          *)
(***************************************************************************)
Coms == {None, R(0), <<1, 2>>}

Spans == {None, R(1), R(2)}

MinPeriods == 0..MaxMinPeriods

\* Unary inputs: an ndarray or a Series of 1..MaxLen values.
EwmUnaryArgs ==
    {NdArray(c) : c \in Arrays(Vals \cup {Inf}, MaxLen)}
    \cup {MkSeries(c, [i \in 1..Len(c) |-> i]) : c \in Arrays(Vals \cup {Inf}, MaxLen)}

\* Binary inputs: two arrays of one length (and one index), each an ndarray or a Series.
EwmBinaryArgs ==
    {<<[kind |-> k1, index |-> IF k1 = "Series" THEN [i \in 1..Len(c1) |-> i] ELSE <<>>,
        columns |-> <<>>, data |-> <<c1>>],
       [kind |-> k2, index |-> IF k2 = "Series" THEN [i \in 1..Len(c1) |-> i] ELSE <<>>,
        columns |-> <<>>, data |-> <<c2>>]>> :
        <<k1, k2, c1, c2>> \in
            {q \in {"ndarray", "Series"} \X {"ndarray", "Series"}
                   \X Arrays(Vals, MaxLen) \X Arrays({NaN, R(1)}, MaxLen) :
                Len(q[3]) = Len(q[4])}}

EwmIdle ==
    [op |-> "idle", arg1 |-> NoArg, arg2 |-> NoArg, com |-> None, span |-> None,
     min_periods |-> 0, bias |-> FALSE, res |-> Ok(NoArg)]

\* The outcome of the EWM operation `op` on the given arguments (time_rule=None).
EwmCall(op, arg1, arg2, com, span, min_periods, bias) ==
    CASE op = "ewma" -> ewma(arg1, com, span, min_periods, None)
      [] op = "ewmvar" -> ewmvar(arg1, com, span, min_periods, bias, None)
      [] op = "ewmstd" -> ewmstd(arg1, com, span, min_periods, bias, None)
      [] op = "ewmcov" -> ewmcov(arg1, arg2, com, span, min_periods, bias, None)
      [] op = "ewmcorr" -> ewmcorr(arg1, arg2, com, span, min_periods, None)

EwmRecord(op, arg1, arg2, com, span, min_periods, bias, res) ==
    [op |-> op, arg1 |-> arg1, arg2 |-> arg2, com |-> com, span |-> span,
     min_periods |-> min_periods, bias |-> bias, res |-> res]

CallEwma ==
    /\ ewm.op = "idle"
    /\ \E a \in EwmUnaryArgs, com \in Coms, span \in Spans, m \in MinPeriods :
          ewm' = EwmRecord("ewma", a, NoArg, com, span, m, FALSE,
                           ewma(a, com, span, m, None))
    /\ UNCHANGED <<roll, flex, pw>>

CallEwmvar ==
    /\ ewm.op = "idle"
    /\ \E a \in EwmUnaryArgs, com \in Coms, span \in Spans, m \in MinPeriods,
          bias \in BOOLEAN :
          ewm' = EwmRecord("ewmvar", a, NoArg, com, span, m, bias,
                           ewmvar(a, com, span, m, bias, None))
    /\ UNCHANGED <<roll, flex, pw>>

CallEwmstd ==
    /\ ewm.op = "idle"
    /\ \E a \in EwmUnaryArgs, com \in Coms, span \in Spans, m \in MinPeriods,
          bias \in BOOLEAN :
          ewm' = EwmRecord("ewmstd", a, NoArg, com, span, m, bias,
                           ewmstd(a, com, span, m, bias, None))
    /\ UNCHANGED <<roll, flex, pw>>

CallEwmcov ==
    /\ ewm.op = "idle"
    /\ \E ab \in EwmBinaryArgs, com \in Coms, span \in Spans,
          m \in {0, MaxMinPeriods}, bias \in BOOLEAN :
          ewm' = EwmRecord("ewmcov", ab[1], ab[2], com, span, m, bias,
                           ewmcov(ab[1], ab[2], com, span, m, bias, None))
    /\ UNCHANGED <<roll, flex, pw>>

CallEwmcorr ==
    /\ ewm.op = "idle"
    /\ \E ab \in EwmBinaryArgs, com \in Coms, span \in Spans, m \in {0, MaxMinPeriods} :
          ewm' = EwmRecord("ewmcorr", ab[1], ab[2], com, span, m, FALSE,
                           ewmcorr(ab[1], ab[2], com, span, m, None))
    /\ UNCHANGED <<roll, flex, pw>>

EwmReturn ==
    /\ ewm.op # "idle"
    /\ ewm' = EwmIdle
    /\ UNCHANGED <<roll, flex, pw>>

RollIdle ==
    [op |-> "idle", arg |-> NoArg, window |-> 0, min_periods |-> None,
     time_rule |-> None, res |-> [err |-> "", val |-> NoArg, calls |-> <<>>]]

FlexIdle ==
    [pc |-> "idle", arg1 |-> NoArg, arg2 |-> NoArg, depth |-> 0, handed |-> <<>>,
     err |-> "", out |-> NoArg]

PwIdle ==
    [pc |-> "idle", df |-> NoArg, window |-> 0, min_periods |-> None, i |-> 0, j |-> 0,
     all_results |-> <<>>, calls |-> <<>>, out |-> <<>>]

InitEwm == ewm = EwmIdle /\ roll = RollIdle /\ flex = FlexIdle /\ pw = PwIdle

NextEwm ==
    \/ CallEwma
    \/ CallEwmvar
    \/ CallEwmstd
    \/ CallEwmcov
    \/ CallEwmcorr
    \/ EwmReturn

SpecEwm == InitEwm /\ [][NextEwm]_vars

(***************************************************************************)
(* Claims about the EWM operations.                                        *)
(***************************************************************************)
ConfigErrors == {"com and span are mutually exclusive", "Must pass either com or span"}

EwmCalled == ewm.op # "idle"

\* C1: every EWM operation fails when both com and span are given and when
\* neither is given, and does not fail for that reason when exactly one is given.
C1_ExactlyOneOfComSpan ==
    EwmCalled =>
        LET both == ewm.com # None /\ ewm.span # None
            neither == ewm.com = None /\ ewm.span = None
        IN  /\ (both \/ neither) => ewm.res.err # ""
            /\ ~(both \/ neither) => ewm.res.err \notin ConfigErrors

\* A paired EWM call of matching types given both com and span is rejected as such.
C1_Witness ==
    /\ ewm.op = "ewmcov"
    /\ ewm.com # None /\ ewm.span # None
    /\ ewm.res.err = "com and span are mutually exclusive"

\* C3: ewma with min_periods = m >= 1 forces exactly the first m-1 outputs from
\* the first valid input to missing; the output at first_valid + m - 1 and all
\* later outputs keep the recursively computed value.
C3_MinPeriodsGate ==
    (ewm.op = "ewma" /\ ewm.res.err = "" /\ ewm.min_periods >= 1) =>
        LET x == KillInf(ewm.arg1.data[1])
            y == ewm.res.val.data[1]
            first == _first_valid_index(x)
            m == ewm.min_periods
            c == _get_center_of_mass(ewm.com, ewm.span).val
        IN  (\E i \in 1..Len(x) : ~IsNaN(x[i])) =>
                \A i \in 1..Len(x) :
                    /\ (first <= i - 1 /\ i - 1 < first + m - 1) => IsNaN(y[i])
                    /\ (i - 1 >= first + m - 1) => y[i] = TseriesEwma(x, c)[i]

\* C10: a call given span = s alone completes and returns what the same call
\* given com = (s - 1) / 2 alone returns (stated for s > 1, where com > 0).
C10_SpanEquivalentToCom ==
    (EwmCalled /\ ewm.com = None /\ ewm.span # None /\ ewm.span # R(1)) =>
        /\ ewm.res.err = ""
        /\ ewm.res = EwmCall(ewm.op, ewm.arg1, ewm.arg2,
                             Div(Sub(ewm.span, R(1)), R(2)), None,
                             ewm.min_periods, ewm.bias)


(***************************************************************************)
(* The rolling calls on raw arrays as a state machine.                     *)
(***************************************************************************)
MaxWindow == 4

RollArgs == {NdArray(c) : c \in Arrays(Vals \cup {Inf}, MaxLen + 1)}

Windows == 1..MaxWindow

RollMinPeriods == {None} \cup {Some(m) : m \in (-1)..(MaxWindow + 1)}

RollRecord(op, arg, window, min_periods, time_rule, res) ==
    [op |-> op, arg |-> arg, window |-> window, min_periods |-> min_periods,
     time_rule |-> time_rule, res |-> res]

CallRollingOp(op) ==
    /\ roll.op = "idle"
    /\ \E a \in RollArgs, w \in Windows, m \in RollMinPeriods :
          roll' = RollRecord(op, a, w, m, None, _rolling_moment(op, a, w, m, None))
    /\ UNCHANGED <<ewm, flex, pw>>

rolling_max == CallRollingOp("rolling_max")

rolling_min == CallRollingOp("rolling_min")

rolling_sum == CallRollingOp("rolling_sum")

rolling_mean == CallRollingOp("rolling_mean")

rolling_std == CallRollingOp("rolling_std")

rolling_var == CallRollingOp("rolling_var")

rolling_skew == CallRollingOp("rolling_skew")

rolling_kurt == CallRollingOp("rolling_kurt")

CallRollingCount ==
    /\ roll.op = "idle"
    /\ \E a \in RollArgs, w \in Windows :
          roll' = RollRecord("rolling_count", a, w, None, None,
                             rolling_count(a, w, None))
    /\ UNCHANGED <<ewm, flex, pw>>

RollReturn ==
    /\ roll.op # "idle"
    /\ roll' = RollIdle
    /\ UNCHANGED <<ewm, flex, pw>>

InitRoll == ewm = EwmIdle /\ roll = RollIdle /\ flex = FlexIdle /\ pw = PwIdle

NextRoll ==
    \/ rolling_max
    \/ rolling_min
    \/ rolling_sum
    \/ rolling_mean
    \/ rolling_std
    \/ rolling_var
    \/ rolling_skew
    \/ rolling_kurt
    \/ CallRollingCount
    \/ RollReturn

SpecRoll == InitRoll /\ [][NextRoll]_vars

(***************************************************************************)
(* Claims about the rolling operations.                                    *)
(***************************************************************************)
\* The statistic's floor of the spec: 2 for var and std, 3 for skew, 4 for kurt.
StatFloor(op) ==
    CASE op \in {"rolling_std", "rolling_var"} -> 2
      [] op = "rolling_skew" -> 3
      [] op = "rolling_kurt" -> 4
      [] OTHER -> 0

\* C2: for rolling_var/std (floor 2), rolling_skew (3) and rolling_kurt (4) the
\* minimum-sample count handed to the reducer is never below the floor, for
\* every window >= 1 and every min_periods, unset included.
C2_FloorEnforced ==
    roll.op \in {"rolling_std", "rolling_var", "rolling_skew", "rolling_kurt"} =>
        \A k \in 1..Len(roll.res.calls) : roll.res.calls[k].minp >= StatFloor(roll.op)

\* The number of finite values of col in the trailing window [max(1,i-W+1), i].
FiniteInWindow(col, i, W) ==
    Cardinality({j \in Max(1, i - W + 1)..i : IsFinite(col[j])})

InvalidMinPeriods ==
    /\ roll.op \in RollingOps
    /\ roll.min_periods # None
    /\ (roll.min_periods[1] < 1 \/ roll.min_periods[1] > roll.window)

MaxLabel == 3

ShapeVals == {NaN, R(1)}

\* The strictly increasing label sequences of length n over 1..MaxLabel.
Indexes(n) == {SortedSeq(S) : S \in {T \in SUBSET (1..MaxLabel) : Cardinality(T) = n}}

ColumnNames == {<<1>>, <<2>>, <<1, 2>>}

ShapeArgs ==
    {NdArray(c) : c \in Arrays(ShapeVals, MaxLen)}
    \cup UNION {{MkSeries(c, idx) : c \in [1..n -> ShapeVals], idx \in Indexes(n)} :
                   n \in 1..MaxLen}
    \cup UNION {{MkDataFrame(d, idx, cols) :
                    d \in [1..Len(cols) -> [1..n -> ShapeVals]], idx \in Indexes(n)} :
                   <<n, cols>> \in (1..MaxLen) \X ColumnNames}

TimeRules == {None, Some(1), Some(2)}

ShapeRolling ==
    /\ roll.op = "idle"
    /\ \E op \in RollingOps, a \in ShapeArgs, w \in 1..2, m \in {None, Some(1)},
          t \in TimeRules :
          roll' = RollRecord(op, a, w, m, t, _rolling_moment(op, a, w, m, t))
    /\ UNCHANGED <<ewm, flex, pw>>

ShapeRollingCount ==
    /\ roll.op = "idle"
    /\ \E a \in ShapeArgs, w \in 1..2, t \in TimeRules :
          roll' = RollRecord("rolling_count", a, w, None, t, rolling_count(a, w, t))
    /\ UNCHANGED <<ewm, flex, pw>>

\* An EWM call recorded like a rolling call (com = 1, min_periods = 0).
EwmShapeRecord(op, arg, time_rule, r) ==
    [op |-> op, arg |-> arg, window |-> 0, min_periods |-> None,
     time_rule |-> time_rule, res |-> [err |-> r.err, val |-> r.val, calls |-> <<>>]]

ShapeEwma ==
    /\ roll.op = "idle"
    /\ \E a \in ShapeArgs, t \in TimeRules : 
          roll' = EwmShapeRecord("ewma", a, t, ewma(a, R(1), None, 0, t))
    /\ UNCHANGED <<ewm, flex, pw>>

ShapeEwmvar ==
    /\ roll.op = "idle"
    /\ \E a \in ShapeArgs, t \in TimeRules, b \in BOOLEAN :
          roll' = EwmShapeRecord("ewmvar", a, t, ewmvar(a, R(1), None, 0, b, t))
    /\ UNCHANGED <<ewm, flex, pw>>

ShapeEwmstd ==
    /\ roll.op = "idle"
    /\ \E a \in ShapeArgs, t \in TimeRules, b \in BOOLEAN :
          roll' = EwmShapeRecord("ewmstd", a, t, ewmstd(a, R(1), None, 0, b, t))
    /\ UNCHANGED <<ewm, flex, pw>>

InitShape == ewm = EwmIdle /\ roll = RollIdle /\ flex = FlexIdle /\ pw = PwIdle

NextShape ==
    \/ ShapeRolling
    \/ ShapeRollingCount
    \/ ShapeEwma
    \/ ShapeEwmvar
    \/ ShapeEwmstd
    \/ RollReturn

SpecShape == InitShape /\ [][NextShape]_vars

\* Every column of the container has as many rows as its index.
WellShaped(c) ==
    /\ \A k \in 1..Len(c.data) : Len(c.data[k]) = NRows(c)
    /\ c.kind # "ndarray" => Len(c.index) = NRows(c)
    /\ c.kind = "DataFrame" => Len(c.data) = Len(c.columns)

\* C7 as stated: with or without a time_rule the output has the container
\* kind, the length, the row index and the columns of the input as passed.
C7_ShapeOfInput ==
    (roll.op # "idle" /\ roll.res.err = "") =>
        /\ roll.res.val.kind = roll.arg.kind
        /\ NRows(roll.res.val) = NRows(roll.arg)
        /\ roll.res.val.index = roll.arg.index
        /\ roll.res.val.columns = roll.arg.columns

\* The regular calendar of step `rule` from the first to the last label of idx.
Calendar(idx, rule) ==
    SortedSeq({d \in idx[1]..idx[Len(idx)] : (d - idx[1]) % rule = 0})

\* C7 amended: the output has the kind and the columns of the input; its row
\* index and length are those of the input as passed when no time_rule is
\* given or the input is a raw array, and those of the input conformed to the
\* time_rule otherwise.
C7_ShapeOfConformedInput ==
    (roll.op # "idle" /\ roll.res.err = "") =>
        /\ roll.res.val.kind = roll.arg.kind
        /\ roll.res.val.columns = roll.arg.columns
        /\ WellShaped(roll.res.val)
        /\ (roll.time_rule = None \/ roll.arg.kind = "ndarray") =>
              /\ roll.res.val.index = roll.arg.index
              /\ NRows(roll.res.val) = NRows(roll.arg)
        /\ (roll.time_rule # None /\ roll.arg.kind # "ndarray") =>
              roll.res.val.index = Calendar(roll.arg.index, roll.time_rule[1])

\* A Series conformed to a coarser calendar: the output is a Series, shorter
\* than the input that was passed.
C7_Witness ==
    /\ roll.op = "rolling_mean"
    /\ roll.arg.kind = "Series"
    /\ roll.time_rule = Some(2)
    /\ roll.res.val.kind = "Series"
    /\ NRows(roll.res.val) < NRows(roll.arg)


(***************************************************************************)
(* The paired dispatcher _flex_binary_moment(arg1, arg2, f), one frame per *)
(* step.  flex.handed lists what f was called with: X and Y, and beside    *)
(* them A and B, the two inputs aligned but not yet masked.  f's own value *)
(* is not modelled: the result keeps only its kind, index and columns.     *)
(***************************************************************************)
\* The depth at which the interpreter stops a recursion with a RecursionError.
RecursionLimit == 3

\* DataFrame column `name`, all missing when the frame has no such column
ColumnOf(df, name) ==
    IF \E k \in 1..Len(df.columns) : df.columns[k] = name
    THEN df.data[CHOOSE k \in 1..Len(df.columns) : df.columns[k] = name]
    ELSE [i \in 1..Len(df.index) |-> NaN]

\* DataFrame.reindex on both axes
ReindexFrame(df, idx, cols) ==
    LET rows == ReindexRows(df, idx)
    IN  MkDataFrame([k \in 1..Len(cols) |-> ColumnOf(rows, cols[k])], idx, cols)

\* arg1.align(arg2, join='outer') of two DataFrames
AlignFrames(arg1, arg2) ==
    LET idx == UnionIndex(arg1.index, arg2.index)
        cols == UnionIndex(arg1.columns, arg2.columns)
    IN  [X |-> ReindexFrame(arg1, idx, cols), Y |-> ReindexFrame(arg2, idx, cols)]

\* arg1.align(arg2, axis=0, join='outer') of a DataFrame and a Series
AlignFrameSeries(arg1, arg2) ==
    LET idx == UnionIndex(arg1.index, arg2.index)
    IN  [X |-> ReindexRows(arg1, idx), Y |-> ReindexRows(arg2, idx)]

\* X + 0 * Y of two aligned DataFrames
FrameMaskBy(X, Y) ==
    [X EXCEPT !.data = [c \in 1..Len(X.data) |-> VAdd(X.data[c], VScale(R(0), Y.data[c]))]]

Handed(X, Y, A, B) == [X |-> X, Y |-> Y, A |-> A, B |-> B]

\* The first branch: both arguments are ndarrays.
FlexArrays ==
    /\ flex.pc = "call"
    /\ IsNdarray(flex.arg1.kind) /\ IsNdarray(flex.arg2.kind)
    /\ LET p == _prep_binary(flex.arg1, flex.arg2)
           u == UnionIndex(flex.arg1.index, flex.arg2.index)
           bothSeries == flex.arg1.kind = "Series" /\ flex.arg2.kind = "Series"
           A == IF bothSeries THEN ReindexRows(flex.arg1, u) ELSE flex.arg1
           B == IF bothSeries THEN ReindexRows(flex.arg2, u) ELSE flex.arg2
       IN  IF p.err # ""
           THEN flex' = [flex EXCEPT !.pc = "done", !.err = p.err]
           ELSE flex' = [flex EXCEPT !.pc = "done",
                            !.handed = <<Handed(p.X.data[1], p.Y.data[1],
                                                A.data[1], B.data[1])>>,
                            !.out = [p.X EXCEPT !.data = <<>>]]
    /\ UNCHANGED <<ewm, roll, pw>>

\* The second branch: arg1 is a DataFrame.
FlexTable ==
    /\ flex.pc = "call"
    /\ ~(IsNdarray(flex.arg1.kind) /\ IsNdarray(flex.arg2.kind))
    /\ flex.arg1.kind = "DataFrame"
    /\ IF flex.arg2.kind = "DataFrame"
       THEN LET al == AlignFrames(flex.arg1, flex.arg2)
                X == FrameMaskBy(al.X, al.Y)
                Y == FrameMaskBy(al.Y, X)
                res_columns == UnionIndex(flex.arg1.columns, flex.arg2.columns)
            IN  flex' = [flex EXCEPT !.pc = "done",
                            !.handed = [k \in 1..Len(res_columns) |->
                                Handed(ColumnOf(X, res_columns[k]),
                                       ColumnOf(Y, res_columns[k]),
                                       ColumnOf(al.X, res_columns[k]),
                                       ColumnOf(al.Y, res_columns[k]))],
                            !.out = MkDataFrame(<<>>, X.index, res_columns)]
       ELSE IF flex.arg2.kind = "Series"
       THEN LET al == AlignFrameSeries(flex.arg1, flex.arg2)
                res_columns == flex.arg1.columns
            IN  flex' = [flex EXCEPT !.pc = "done",
                            !.handed = [k \in 1..Len(res_columns) |->
                                Handed(ColumnOf(al.X, res_columns[k]), al.Y.data[1],
                                       ColumnOf(al.X, res_columns[k]), al.Y.data[1])],
                            !.out = MkDataFrame(<<>>, al.X.index, res_columns)]
       ELSE flex' = [flex EXCEPT !.pc = "done", !.err = "TypeError: unsupported type"]
    /\ UNCHANGED <<ewm, roll, pw>>

\* The last branch: the call recurses with its arguments swapped.
FlexSwap ==
    /\ flex.pc = "call"
    /\ ~(IsNdarray(flex.arg1.kind) /\ IsNdarray(flex.arg2.kind))
    /\ flex.arg1.kind # "DataFrame"
    /\ IF flex.depth >= RecursionLimit
       THEN flex' = [flex EXCEPT !.pc = "done", !.err = "RecursionError"]
       ELSE flex' = [flex EXCEPT !.arg1 = flex.arg2, !.arg2 = flex.arg1,
                                 !.depth = flex.depth + 1]
    /\ UNCHANGED <<ewm, roll, pw>>

FlexVals == {NaN, R(1)}

FlexArgs ==
    {NdArray(c) : c \in Arrays(FlexVals, MaxLen)}
    \cup {[kind |-> "other", index |-> <<>>, columns |-> <<>>, data |-> <<c>>] :
             c \in [1..MaxLen -> {R(1)}]}
    \cup UNION {{MkSeries(c, idx) : c \in [1..n -> FlexVals], idx \in Indexes(n)} :
                   n \in 1..MaxLen}
    \cup UNION {{MkDataFrame(d, idx, cols) :
                    d \in [1..Len(cols) -> [1..n -> FlexVals]], idx \in Indexes(n)} :
                   <<n, cols>> \in {MaxLen} \X ColumnNames}

\* Two raw arrays, or a raw array and a Series, are added by position: they
\* have one length.
Conformable(a, b) ==
    (IsNdarray(a.kind) /\ IsNdarray(b.kind) /\ ~(a.kind = "Series" /\ b.kind = "Series"))
        => NRows(a) = NRows(b)

FlexCall ==
    /\ flex.pc = "idle"
    /\ \E a \in FlexArgs, b \in FlexArgs :
          /\ Conformable(a, b)
          /\ flex' = [FlexIdle EXCEPT !.pc = "call", !.arg1 = a, !.arg2 = b]
    /\ UNCHANGED <<ewm, roll, pw>>

FlexReturn ==
    /\ flex.pc = "done"
    /\ flex' = FlexIdle
    /\ UNCHANGED <<ewm, roll, pw>>

InitFlex == ewm = EwmIdle /\ roll = RollIdle /\ flex = FlexIdle /\ pw = PwIdle

NextFlex ==
    \/ FlexCall
    \/ FlexArrays
    \/ FlexTable
    \/ FlexSwap
    \/ FlexReturn

SpecFlex == InitFlex /\ [][NextFlex]_vars

\* C8: in every path of the dispatcher the two operands handed to the reducer
\* carry one missing-value mask: a position is missing in X iff it is missing in
\* Y, and that exactly when it was missing in either aligned input.
C8_CommonMask ==
    \A k \in 1..Len(flex.handed) :
        LET h == flex.handed[k]
        IN  /\ Len(h.X) = Len(h.Y)
            /\ \A i \in 1..Len(h.X) :
                  /\ IsNaN(h.X[i]) <=> IsNaN(h.Y[i])
                  /\ IsNaN(h.X[i]) <=> (IsNaN(h.A[i]) \/ IsNaN(h.B[i]))

\* C9: for every pair of operand kinds the dispatcher swaps its arguments at
\* most once, and then invokes the reducer or fails.
C9_AtMostOneSwap ==
    /\ flex.depth <= 1
    /\ flex.pc = "done" => (flex.handed # <<>> \/ flex.err # "")


(***************************************************************************)
(* rolling_cov and rolling_corr of two arrays of one kind (the first       *)
(* branch of _flex_binary_moment), and rolling_corr_pairwise, one          *)
(* iteration of its loops per step.                                        *)
(***************************************************************************)
CAdd(a, b) ==
    [a EXCEPT !.data = [c \in 1..Len(a.data) |-> VAdd(a.data[c], b.data[c])]]

CDiv(a, b) ==
    [a EXCEPT !.data = [c \in 1..Len(a.data) |-> VDiv(a.data[c], b.data[c])]]

\* a - 1
CMinusOne(a) ==
    [a EXCEPT !.data = [c \in 1..Len(a.data) |->
                           [i \in 1..Len(a.data[c]) |-> Sub(a.data[c][i], R(1))]]]

\* rolling_cov's _get_cov(X, Y)
_get_cov(X, Y, window, min_periods, time_rule) ==
    LET Adjust(cov, count) == CMul(cov, CDiv(count, CMinusOne(count)))
        Cov(mXY, mX, mY, count) == Adjust(CSub(mXY, CMul(mX, mY)), count)
    IN  Cov(_rolling_moment("rolling_mean", CMul(X, Y), window, min_periods, time_rule).val,
            _rolling_moment("rolling_mean", X, window, min_periods, time_rule).val,
            _rolling_moment("rolling_mean", Y, window, min_periods, time_rule).val,
            rolling_count(CAdd(X, Y), window, time_rule).val)

\* rolling_cov(arg1, arg2, ...) for two ndarrays (Series included)
rolling_cov(arg1, arg2, window, min_periods, time_rule) ==
    LET Prep(p) ==
            IF p.err # "" THEN Fail(p.err)
            ELSE Ok(_get_cov(p.X, p.Y, window, min_periods, time_rule))
    IN  Prep(_prep_binary(arg1, arg2))

\* rolling_corr's _get_corr(a, b): num / (std(a) * std(b)), elementwise, as a term
_get_corr(a, b, window, min_periods, time_rule) ==
    LET Ratio(num, sa, sb) ==
            [num EXCEPT !.data = [c \in 1..Len(num.data) |->
                [i \in 1..Len(num.data[c]) |->
                    \* den is the set of the factors of the product std(a) * std(b)
                    [num |-> num.data[c][i], den |-> {sa.data[c][i], sb.data[c][i]}]]]]
    IN  Ratio(rolling_cov(a, b, window, min_periods, time_rule).val,
              _rolling_moment("rolling_std", a, window, min_periods, time_rule).val,
              _rolling_moment("rolling_std", b, window, min_periods, time_rule).val)

\* rolling_corr(arg1, arg2, ...) for two ndarrays (Series included)
rolling_corr(arg1, arg2, window, min_periods, time_rule) ==
    LET Prep(p) ==
            IF p.err # "" THEN Fail(p.err)
            ELSE Ok(_get_corr(p.X, p.Y, window, min_periods, time_rule))
    IN  Prep(_prep_binary(arg1, arg2))

MaxCols == 3

\* The columns a DataFrame of the pairwise calls is built from.
PwPool == {<<R(1), R(2), NaN>>, <<R(2), R(1), R(2)>>, <<NaN, R(1), R(1)>>}

PwFrames ==
    UNION {{MkDataFrame(d, <<1, 2, 3>>, [c \in 1..k |-> c]) : d \in [1..k -> PwPool]} :
              k \in 1..MaxCols}

\* df[k]
SeriesOf(df, k) == MkSeries(ColumnOf(df, k), df.index)

PwCall ==
    /\ pw.pc = "idle"
    /\ \E df \in PwFrames, w \in 2..3, m \in {None, Some(1)} :
          pw' = [PwIdle EXCEPT !.pc = "loop", !.df = df, !.window = w,
                               !.min_periods = m, !.i = 1, !.j = 1]
    /\ UNCHANGED <<ewm, roll, flex>>

\* all_results with a[k1][k2] = v
Assign(a, k1, k2, v) ==
    [q \in DOMAIN a \cup {<<k1, k2>>} |-> IF q = <<k1, k2>> THEN v ELSE a[q]]

\* A variant of the loop body that stores only all_results[k1][k2].
PwIterationNoMirror ==
    /\ pw.pc = "loop"
    /\ pw.i <= Len(pw.df.columns)
    /\ LET Store(k1, k2, corr, last) ==
               pw' = [pw EXCEPT !.all_results = Assign(pw.all_results, k1, k2, corr),
                                !.calls = Append(pw.calls, <<pw.i, pw.j>>),
                                !.i = IF last THEN pw.i + 1 ELSE pw.i,
                                !.j = IF last THEN pw.i + 1 ELSE pw.j + 1]
           Body(k1, k2) ==
               Store(k1, k2,
                     rolling_corr(SeriesOf(pw.df, k1), SeriesOf(pw.df, k2),
                                  pw.window, pw.min_periods, None).val,
                     pw.j = Len(pw.df.columns))
       IN  Body(pw.df.columns[pw.i], pw.df.columns[pw.j])
    /\ UNCHANGED <<ewm, roll, flex>>

\* One iteration of the inner loop: k1 = columns[i], k2 = columns[j], j >= i.
PwIteration ==
    /\ pw.pc = "loop"
    /\ pw.i <= Len(pw.df.columns)
    /\ LET Store(k1, k2, corr, last) ==
               pw' = [pw EXCEPT !.all_results =
                                    Assign(Assign(pw.all_results, k1, k2, corr), k2, k1, corr),
                                !.calls = Append(pw.calls, <<pw.i, pw.j>>),
                                !.i = IF last THEN pw.i + 1 ELSE pw.i,
                                !.j = IF last THEN pw.i + 1 ELSE pw.j + 1]
           Body(k1, k2) ==
               Store(k1, k2,
                     rolling_corr(SeriesOf(pw.df, k1), SeriesOf(pw.df, k2),
                                  pw.window, pw.min_periods, None).val,
                     pw.j = Len(pw.df.columns))
       IN  Body(pw.df.columns[pw.i], pw.df.columns[pw.j])
    /\ UNCHANGED <<ewm, roll, flex>>

\* Panel.from_dict(all_results).swapaxes('items', 'major'): out[t][k1][k2],
\* missing where all_results holds no such entry.
PanelOf(a, index) ==
    LET items == {q[1] : q \in DOMAIN a}
        minor == {q[2] : q \in DOMAIN a}
    IN  [t \in 1..Len(index) |->
            [k1 \in items |->
                [k2 \in minor |->
                    IF <<k1, k2>> \in DOMAIN a THEN a[<<k1, k2>>].data[1][t]
                    ELSE [num |-> NaN, den |-> {}]]]]

PwReturn ==
    /\ pw.pc = "loop"
    /\ pw.i > Len(pw.df.columns)
    /\ pw' = [pw EXCEPT !.pc = "done", !.out = PanelOf(pw.all_results, pw.df.index)]
    /\ UNCHANGED <<ewm, roll, flex>>

PwReset ==
    /\ pw.pc = "done"
    /\ pw' = PwIdle
    /\ UNCHANGED <<ewm, roll, flex>>

InitPairwise == ewm = EwmIdle /\ roll = RollIdle /\ flex = FlexIdle /\ pw = PwIdle

NextPairwise ==
    \/ PwCall
    \/ PwIteration
    \/ PwReturn
    \/ PwReset

SpecPairwise == InitPairwise /\ [][NextPairwise]_vars

\* C5: rolling_corr_pairwise over columns c_1..c_k holds an entry for every
\* ordered pair, symmetric at every time step, and calls rolling_corr only for
\* the upper triangle j >= i, k(k+1)/2 times.
C5_SymmetricUpperTriangle ==
    LET k == Len(pw.df.columns)
        cols == Range(pw.df.columns)
    IN  /\ \A n \in 1..Len(pw.calls) : pw.calls[n][2] >= pw.calls[n][1]
        /\ \A n, m \in 1..Len(pw.calls) : pw.calls[n] = pw.calls[m] => n = m
        /\ pw.pc = "done" =>
              /\ 2 * Len(pw.calls) = k * (k + 1)
              /\ \A c1, c2 \in cols : <<c1, c2>> \in DOMAIN pw.all_results
              /\ DOMAIN pw.out = 1..NRows(pw.df)
              /\ \A t \in DOMAIN pw.out :
                    /\ DOMAIN pw.out[t] = cols
                    /\ \A c1 \in cols :
                          /\ DOMAIN pw.out[t][c1] = cols
                          /\ \A c2 \in cols : pw.out[t][c1][c2] = pw.out[t][c2][c1]

\* A finished call over three columns whose correlation of two distinct
\* columns is defined at the last time step.
C5_Witness ==
    /\ pw.pc = "done"
    /\ Len(pw.df.columns) = 3
    /\ Len(pw.calls) = 6
    /\ ~IsNaN(pw.out[3][1][2].num)
    /\ pw.out[3][2][1] = pw.out[3][1][2]
    /\ pw.df.data[1] # pw.df.data[2]

=============================================================================
